---------------------------- MODULE Spec2Model ----------------------------
(***************************************************************************)
(* Model of the TCP protocol core of python-omnikinverter                  *)
(* (src/omnikinverter/tcp.py): the frame codec (_pack_message,             *)
(* _unpack_message), the stream decoder (_unpack_messages), the consumer   *)
(* loop (parse_messages) and the information reply decoder                 *)
(* (_parse_information_reply).                                             *)
(*                                                                         *)
(* Bytes are naturals in 0..255, byte strings are sequences of bytes.      *)
(* A Python exception is the name of its class or, for                     *)
(* OmnikInverterPacketInvalidError, the text of its message; "" means      *)
(* that nothing was raised.  An Optional value is a sequence of length 0   *)
(* (None) or 1.                                                            *)
(***************************************************************************)
EXTENDS Integers, Sequences, FiniteSets, TLC

VARIABLES
    \* ---- the codec, called directly (specification SpecCodec)
    call,             \* which step of the codec exercise was done last
    origin,           \* where `body` comes from: "request", "echo" or "reply"
    args,             \* the arguments given to _pack_message
    frame,            \* what _pack_message returned
    body,             \* the frame body handed to _unpack_message
    out,              \* what _unpack_message returned or raised
    flip,             \* the bit of `body` that was flipped in transit
    \* ---- one parse_messages call on a byte stream (specification Spec)
    stream,           \* every byte the connection delivers before it ends
    pos,              \* number of bytes the reader has consumed
    serial_number,    \* parse_messages' argument: the requested serial
    pc,               \* where the coroutines stand
    gen,              \* the state of the _unpack_messages generator
    original_length,  \* _unpack_messages' local of that name
    message,          \* _unpack_messages' local: the reassembled frame body
    yielded,          \* the frames the generator yielded so far, in order
    info,             \* parse_messages' local: the last decoded reply
    error,            \* the exception that ended the call ("" if none)
    result,           \* the record parse_messages returned (<<>> if none)
    log,              \* the LOGGER lines of parse_messages, in order
    \* ---- _parse_information_reply called directly (specification SpecReply)
    stage,            \* which step of the decoder exercise was done last
    fields,           \* the raw field values the inverter reports
    reply_data,       \* the payload handed to _parse_information_reply
    decoded,          \* what _parse_information_reply returned or raised
    \* ---- one OmnikInverter.tcp_request call (specification SpecRequest)
    req_pc,           \* where tcp_request stands
    req_serial,       \* self.serial_number (None is <<>>)
    connection,       \* the TCP connection: "none", "open", "closing", "closed"
    sent,             \* the bytes given to writer.write
    raw_msg,          \* what reader.read(1024) returned
    pending,          \* the exception that entered the finally block
    req_error,        \* the exception that left tcp_request ("" if none)
    returned          \* what tcp_request returned (<<>> if nothing)

codec_vars == <<call, origin, args, frame, body, out, flip>>
stream_vars == <<stream, pos, serial_number, pc, gen, original_length, message,
                 yielded, info, error, result, log>>
reply_vars == <<stage, fields, reply_data, decoded>>
request_vars == <<req_pc, req_serial, connection, sent, raw_msg, pending,
                  req_error, returned>>
vars == <<call, origin, args, frame, body, out, flip,
          stream, pos, serial_number, pc, gen, original_length, message,
          yielded, info, error, result, log,
          stage, fields, reply_data, decoded,
          req_pc, req_serial, connection, sent, raw_msg, pending,
          req_error, returned>>

\* The decoder exercise and tcp_request when a specification does not run them.
ReplyUnused ==
    stage = "none" /\ fields = <<>> /\ reply_data = <<>> /\ decoded = <<>>

RequestUnused ==
    /\ req_pc = "idle" /\ req_serial = <<>> /\ connection = "none"
    /\ sent = <<>> /\ raw_msg = <<>> /\ pending = "" /\ req_error = ""
    /\ returned = <<>>

---------------------------------------------------------------------------
(* Protocol constants, tcp.py lines 10-25.                                 *)

MESSAGE_START == 104
MESSAGE_END == 22
MESSAGE_SEND_SEP == 64
MESSAGE_RECV_SEP == 65
MESSAGE_TYPE_INFORMATION_REQUEST == 48
MESSAGE_TYPE_INFORMATION_REPLY == 176
MESSAGE_TYPE_ERROR_STRING == 177
MESSAGE_TYPE_STRING == 240
UINT16_MAX == 65535

\* A mutant: the checksum byte left out of the header size.
MESSAGE_HEADER_SIZE_without_crc == 3 + 2 * 4

MESSAGE_HEADER_SIZE == 3 + 2 * 4 + 1

\* The byte that ends a burst of messages (line 138).
STREAM_END == 255

\* sizeof(_TcpData): the sum of the field sizes of the packed structure.
TCP_DATA_SIZE ==
    3 + 16 + 2 + (2 * 3) + (2 * 3) + (2 * 3) + (2 * 3) + (4 * 3)
      + 2 + 4 + 4 + 2 + 4 + 2 + 10 + 16 + 4 + 16 + 4

---------------------------------------------------------------------------
(* Python's built-ins on byte strings, as the code uses them.              *)

Pow2(k) == 2 ^ k

\* data[a:b], 0-based and clipped to the string as Python slices are.
Slice(data, a, b) ==
    IF a >= Len(data) \/ b <= a THEN <<>>
    ELSE SubSeq(data, a + 1, IF b < Len(data) THEN b ELSE Len(data))

\* data[a] + ... + data[b], by halves
RECURSIVE sum_between(_, _, _)
sum_between(data, a, b) ==
    IF a > b THEN 0
    ELSE IF a = b THEN data[a]
    ELSE sum_between(data, a, (a + b) \div 2)
            + sum_between(data, (a + b) \div 2 + 1, b)

\* sum(data)
sum(data) == sum_between(data, 1, Len(data))

\* A mutant: the sum masked to seven bits.
checksum_7bit(data) == sum(data) % 128

\* sum(data) & 0xFF (lines 87 and 102)
checksum(data) == sum(data) % 256

\* An unsigned 32-bit integer is kept as its two 16-bit words, hi * 65536 + lo
\* (TLC's own integers end at 2^31 - 1).
uint32(hi, lo) == [hi |-> hi, lo |-> lo]

\* A mutant: most significant byte first.
to_bytes_big(n) ==
    <<n.hi \div 256, n.hi % 256, n.lo \div 256, n.lo % 256>>

\* n.to_bytes(4, "little"), for 0 <= n < 2^32
to_bytes_little(n) ==
    <<n.lo % 256, n.lo \div 256, n.hi % 256, n.hi \div 256>>

\* data[i] of a string of at most four bytes, 0 past its end
byte_or_0(data, i) == IF i <= Len(data) THEN data[i] ELSE 0

\* A mutant: only three of the four bytes are read.
from_bytes_little_3(data) ==
    uint32(byte_or_0(data, 3),
           byte_or_0(data, 1) + 256 * byte_or_0(data, 2))

\* int.from_bytes(data, "little"), for at most four bytes
from_bytes_little(data) ==
    uint32(byte_or_0(data, 3) + 256 * byte_or_0(data, 4),
           byte_or_0(data, 1) + 256 * byte_or_0(data, 2))

\* Whether data.decode("utf8") succeeds: well-formed UTF-8, no overlong
\* forms, no surrogates, nothing above U+10FFFF.
RECURSIVE utf8_valid(_)
utf8_valid(data) ==
    IF data = <<>> THEN TRUE
    ELSE LET b == data[1]
             n == Len(data)
             cont(i) == i <= n /\ data[i] >= 128 /\ data[i] <= 191
             second(lo, hi) == n >= 2 /\ data[2] >= lo /\ data[2] <= hi
             rest(k) == utf8_valid(SubSeq(data, k + 1, n))
         IN  IF b < 128 THEN rest(1)
             ELSE IF b >= 194 /\ b <= 223 THEN cont(2) /\ rest(2)
             ELSE IF b = 224 THEN second(160, 191) /\ cont(3) /\ rest(3)
             ELSE IF b = 237 THEN second(128, 159) /\ cont(3) /\ rest(3)
             ELSE IF b >= 225 /\ b <= 239 THEN cont(2) /\ cont(3) /\ rest(3)
             ELSE IF b = 240 THEN second(144, 191) /\ cont(3) /\ cont(4) /\ rest(4)
             ELSE IF b >= 241 /\ b <= 243 THEN cont(2) /\ cont(3) /\ cont(4) /\ rest(4)
             ELSE IF b = 244 THEN second(128, 143) /\ cont(3) /\ cont(4) /\ rest(4)
             ELSE FALSE

---------------------------------------------------------------------------
(* The frame codec.                                                        *)

\* A mutant: the serial number written most significant byte first.
_pack_message_big_endian(message_type, serial, payload) ==
    LET request_data == <<Len(payload), MESSAGE_SEND_SEP, message_type>>
                            \o to_bytes_big(serial) \o to_bytes_big(serial)
                            \o payload
    IN  <<MESSAGE_START>> \o request_data \o <<checksum(request_data), MESSAGE_END>>

\* A mutant: the checksum taken after the start marker was inserted.
_pack_message_sum_with_start(message_type, serial, payload) ==
    LET request_data == <<Len(payload), MESSAGE_SEND_SEP, message_type>>
                            \o to_bytes_little(serial) \o to_bytes_little(serial)
                            \o payload
    IN  <<MESSAGE_START>> \o request_data
            \o <<checksum(<<MESSAGE_START>> \o request_data), MESSAGE_END>>

\* _pack_message(message_type, serial_number, message), for a message of
\* at most 255 bytes and a serial number below 2^32 (bytearray() and
\* to_bytes() raise otherwise).
_pack_message(message_type, serial, payload) ==
    LET request_data == <<Len(payload), MESSAGE_SEND_SEP, message_type>>
                            \o to_bytes_little(serial) \o to_bytes_little(serial)
                            \o payload
    IN  <<MESSAGE_START>> \o request_data \o <<checksum(request_data), MESSAGE_END>>

\* create_information_request(serial_number)
create_information_request(serial) ==
    _pack_message(MESSAGE_TYPE_INFORMATION_REQUEST, serial, <<1, 0>>)

\* What _unpack_message gives: the tuple it returns, or the error it raises.
Unpacked(message_type, serial, payload) ==
    [error |-> "", message_type |-> message_type, serial |-> serial,
     payload |-> payload]

Raised(text) ==
    [error |-> text, message_type |-> 0, serial |-> uint32(0, 0), payload |-> <<>>]

\* A mutant: the header is popped but the two serial copies stay in front
\* of the payload.
_unpack_message_keeps_serials(data) ==
    LET declared == data[Len(data)]
        rest == SubSeq(data, 1, Len(data) - 1)
        after == Slice(rest, 3, Len(rest))
        serial0 == from_bytes_little(Slice(after, 0, 4))
        serial1 == from_bytes_little(Slice(after, 4, 8))
    IN  IF data = <<>> THEN Raised("IndexError")
        ELSE IF declared # checksum(rest) THEN Raised("Checksum mismatch")
        ELSE IF Len(rest) < 2 THEN Raised("IndexError")
        ELSE IF rest[2] # MESSAGE_RECV_SEP THEN Raised("Invalid receiver separator")
        ELSE IF Len(rest) < 3 THEN Raised("IndexError")
        ELSE IF serial0 # serial1 THEN Raised("Serial number mismatch in reply")
        ELSE Unpacked(rest[3], serial0, after)

\* _unpack_message(message): pop the checksum and compare it, pop length,
\* separator and type, compare the two serial copies, return the rest.
\* A pop from an empty bytearray raises IndexError.
_unpack_message(data) ==
    LET declared == data[Len(data)]
        rest == SubSeq(data, 1, Len(data) - 1)
        after == Slice(rest, 3, Len(rest))
        serial0 == from_bytes_little(Slice(after, 0, 4))
        serial1 == from_bytes_little(Slice(after, 4, 8))
    IN  IF data = <<>> THEN Raised("IndexError")
        ELSE IF declared # checksum(rest) THEN Raised("Checksum mismatch")
        ELSE IF Len(rest) < 2 THEN Raised("IndexError")
        ELSE IF rest[2] # MESSAGE_RECV_SEP THEN Raised("Invalid receiver separator")
        ELSE IF Len(rest) < 3 THEN Raised("IndexError")
        ELSE IF serial0 # serial1 THEN Raised("Serial number mismatch in reply")
        ELSE Unpacked(rest[3], serial0, Slice(after, 8, Len(after)))

---------------------------------------------------------------------------
(* The codec called directly: SpecCodec.  A request is packed, its body    *)
(* is cut out of the frame and decoded, as it is or as the inverter would  *)
(* send it back (receive separator, checksum over the new body); or a      *)
(* reply body arrives from the wire.  A body may lose one bit in transit.  *)

\* Longest payload handed to the codec.
MaxPayloadLen == 2

\* 0, 2^24, 123456789 and 2^32 - 1
Serials == {uint32(0, 0), uint32(256, 0), uint32(1883, 52501), uint32(65535, 65535)}
CodecTypes == {MESSAGE_TYPE_INFORMATION_REQUEST, MESSAGE_TYPE_INFORMATION_REPLY, 0}
PayloadBytes == {0, 1, 255}
Payloads == UNION {[1..n -> PayloadBytes] : n \in 0..MaxPayloadLen}

PackArgs ==
    [message_type : CodecTypes, serial_number : Serials, message : Payloads]

\* The bodies a peer may send: any separator, any two serial copies, a
\* checksum that is right (skew 0) or off by skew.
ReplyParams ==
    [sep : {MESSAGE_RECV_SEP, MESSAGE_SEND_SEP},
     message_type : {MESSAGE_TYPE_INFORMATION_REPLY, 0},
     serial0 : Serials, serial1 : Serials, payload : Payloads, skew : {0, 1}]

ReplyBody(r) ==
    LET head == <<Len(r.payload), r.sep, r.message_type>>
                    \o to_bytes_little(r.serial0) \o to_bytes_little(r.serial1)
                    \o r.payload
    IN  head \o <<(sum(head) + r.skew) % 256>>

\* b ^ (1 << k)
flip_bit(b, k) == IF (b \div Pow2(k)) % 2 = 1 THEN b - Pow2(k) ELSE b + Pow2(k)

FlipAt(data, i, k) == [data EXCEPT ![i] = flip_bit(data[i], k)]

CodecIdle ==
    /\ stream = <<>> /\ pos = 0 /\ serial_number = uint32(0, 0) /\ pc = "idle"
    /\ gen = "idle"
    /\ original_length = 0 /\ message = <<>> /\ yielded = <<>>
    /\ info = <<>> /\ error = "" /\ result = <<>> /\ log = <<>>

CodecInit ==
    /\ call = "none" /\ origin = "none" /\ args = <<>> /\ frame = <<>>
    /\ body = <<>> /\ out = <<>> /\ flip = <<>>
    /\ CodecIdle /\ ReplyUnused /\ RequestUnused

Pack ==
    /\ call = "none"
    /\ \E a \in PackArgs :
          /\ args' = <<a>>
          /\ frame' = _pack_message(a.message_type, a.serial_number, a.message)
    /\ call' = "packed" /\ origin' = "request"
    /\ UNCHANGED <<body, out, flip>> /\ UNCHANGED stream_vars /\ UNCHANGED <<reply_vars, request_vars>>

CreateInformationRequest ==
    /\ call = "none"
    /\ \E s \in Serials :
          /\ args' = <<[message_type |-> MESSAGE_TYPE_INFORMATION_REQUEST,
                        serial_number |-> s, message |-> <<1, 0>>]>>
          /\ frame' = create_information_request(s)
    /\ call' = "packed" /\ origin' = "request"
    /\ UNCHANGED <<body, out, flip>> /\ UNCHANGED stream_vars /\ UNCHANGED <<reply_vars, request_vars>>

\* The bytes between the start marker and the end marker.
StripMarkers ==
    /\ call = "packed"
    /\ body' = SubSeq(frame, 2, Len(frame) - 1)
    /\ call' = "body"
    /\ UNCHANGED <<origin, args, frame, out, flip>> /\ UNCHANGED stream_vars /\ UNCHANGED <<reply_vars, request_vars>>

\* The same header and payload as a reply: separator 0x41, checksum redone.
Echo ==
    /\ call = "body" /\ origin = "request"
    /\ LET head == [SubSeq(body, 1, Len(body) - 1) EXCEPT ![2] = MESSAGE_RECV_SEP]
       IN  body' = head \o <<sum(head) % 256>>
    /\ origin' = "echo"
    /\ UNCHANGED <<call, args, frame, out, flip>> /\ UNCHANGED stream_vars /\ UNCHANGED <<reply_vars, request_vars>>

ReceiveReply ==
    /\ call = "none"
    /\ \E r \in ReplyParams : body' = ReplyBody(r)
    /\ call' = "body" /\ origin' = "reply"
    /\ UNCHANGED <<args, frame, out, flip>> /\ UNCHANGED stream_vars /\ UNCHANGED <<reply_vars, request_vars>>

\* A well-formed reply body: receive separator, both serial copies equal,
\* the last byte the sum of the others.
WellFormedReply(data) ==
    /\ Len(data) >= MESSAGE_HEADER_SIZE
    /\ data[2] = MESSAGE_RECV_SEP
    /\ \A i \in 4..7 : data[i] = data[i + 4]
    /\ data[Len(data)] = sum(SubSeq(data, 1, Len(data) - 1)) % 256

\* One bit of a well-formed reply body, the checksum byte excepted, flips.
FlipBit ==
    /\ call = "body" /\ origin \in {"echo", "reply"} /\ flip = <<>>
    /\ WellFormedReply(body)
    /\ \E i \in 1..(Len(body) - 1), k \in 0..7 :
          /\ body' = FlipAt(body, i, k)
          /\ flip' = <<[byte |-> i, bit |-> k]>>
    /\ UNCHANGED <<call, origin, args, frame, out>> /\ UNCHANGED stream_vars /\ UNCHANGED <<reply_vars, request_vars>>

Unpack ==
    /\ call = "body"
    /\ out' = <<_unpack_message(body)>>
    /\ call' = "unpacked"
    /\ UNCHANGED <<origin, args, frame, body, flip>> /\ UNCHANGED stream_vars /\ UNCHANGED <<reply_vars, request_vars>>

CodecNext ==
    \/ Pack
    \/ CreateInformationRequest
    \/ StripMarkers
    \/ Echo
    \/ ReceiveReply
    \/ FlipBit
    \/ Unpack

SpecCodec == CodecInit /\ [][CodecNext]_vars

---------------------------------------------------------------------------
(* Properties of the codec, checked under SpecCodec.                       *)

\* The request that was packed, and what the decode step answered.
Packed == args[1]
Decoded == out[1]

\* C1 as stated: decoding the body of the frame _pack_message built (the
\* bytes between the markers, checksum last) gives back the message type,
\* the serial number and the 2-byte payload that were packed.
C1_RoundTripOfRequestBody ==
    (call = "unpacked" /\ origin = "request" /\ flip = <<>>
        /\ Len(Packed.message) = 2)
    => Decoded = Unpacked(Packed.message_type, Packed.serial_number, Packed.message)

\* C1 amended: _unpack_message rejects the body of every frame that
\* _pack_message built, 2-byte payload or not, with "Invalid receiver
\* separator" (a request carries 0x40, the decoder takes 0x41 only); the
\* same body with the separator 0x41 and the checksum of that body decodes
\* to the message type, serial number and payload that were packed.
C1_RoundTripThroughReplySeparator ==
    (call = "unpacked" /\ flip = <<>>)
    => /\ origin = "request" => Decoded = Raised("Invalid receiver separator")
       /\ origin = "echo" =>
            Decoded = Unpacked(Packed.message_type, Packed.serial_number,
                               Packed.message)

C1_Witness ==
    /\ call = "unpacked" /\ origin = "echo" /\ flip = <<>>
    /\ Packed.serial_number = uint32(1883, 52501)
    /\ Packed.message = <<1, 0>>
    /\ Decoded.error = "" /\ Decoded.payload = <<1, 0>>

\* The body as it was before a bit of it flipped.
BodyBeforeFlip == FlipAt(body, flip[1].byte, flip[1].bit)

\* C2: when one bit of a well-formed reply body flips, in any byte but the
\* checksum byte, _unpack_message raises the checksum mismatch and returns
\* no frame.
C2_ChecksumSensitivity ==
    (call = "unpacked" /\ flip # <<>> /\ flip[1].byte < Len(body)
        /\ WellFormedReply(BodyBeforeFlip))
    => Decoded = Raised("Checksum mismatch")

C2_Witness ==
    /\ call = "unpacked" /\ flip # <<>>
    /\ flip[1].bit = 7 /\ flip[1].byte = Len(body) - 1
    /\ WellFormedReply(BodyBeforeFlip)
    /\ Decoded.error = "Checksum mismatch"

\* C3: the frame _pack_message returns is 0x68, the payload length, 0x40,
\* the message type, the serial number as four little-endian bytes twice,
\* the payload, the sum modulo 256 of the bytes from the length byte to
\* the last payload byte, and 0x16; the information request has length
\* byte 0x02 and type byte 0x30.
C3_RequestLayout ==
    (call # "none" /\ origin \in {"request", "echo"})
    => LET n == Len(Packed.message)
           word == Packed.serial_number
           le == <<word.lo % 256, word.lo \div 256, word.hi % 256, word.hi \div 256>>
       IN  /\ Len(frame) = n + 14
           /\ frame[1] = 104 /\ frame[2] = n /\ frame[3] = 64
           /\ frame[4] = Packed.message_type
           /\ \A i \in 1..4 : frame[4 + i] = le[i] /\ frame[8 + i] = le[i]
           /\ \A j \in 1..n : frame[12 + j] = Packed.message[j]
           /\ frame[n + 13] = sum(SubSeq(frame, 2, n + 12)) % 256
           /\ frame[n + 14] = 22
           /\ (Packed.message_type = 48 /\ Packed.message = <<1, 0>>)
                => (frame[2] = 2 /\ frame[4] = 48)

C3_Witness ==
    /\ call = "packed"
    /\ Packed = [message_type |-> 48, serial_number |-> uint32(1883, 52501),
                 message |-> <<1, 0>>]
    /\ frame = <<104, 2, 64, 48, 21, 205, 91, 7, 21, 205, 91, 7, 1, 0, 251, 22>>

\* C5: a reply body with the right checksum and the separator 0x41 whose
\* two serial copies differ makes _unpack_message raise the serial
\* mismatch and return no frame; when the copies are equal the serial
\* number returned is their little-endian value.
C5_InternalSerialMismatch ==
    (call = "unpacked" /\ Len(body) >= 12 /\ body[2] = 65
        /\ body[Len(body)] = sum(SubSeq(body, 1, Len(body) - 1)) % 256)
    => IF \E i \in 4..7 : body[i] # body[i + 4]
       THEN Decoded = Raised("Serial number mismatch in reply")
       ELSE /\ Decoded.error = ""
            /\ Decoded.serial.lo = body[4] + 256 * body[5]
            /\ Decoded.serial.hi = body[6] + 256 * body[7]

C5_Witness ==
    /\ call = "unpacked" /\ origin = "reply" /\ body[2] = 65
    /\ SubSeq(body, 4, 7) = <<0, 0, 0, 0>> /\ SubSeq(body, 8, 11) = <<0, 0, 0, 1>>
    /\ Decoded.error = "Serial number mismatch in reply"

---------------------------------------------------------------------------
(* The information reply decoder.                                          *)

\* A big-endian c_ushort at byte offset off (0-based) of the structure.
c_ushort(data, off) == data[off + 1] * 256 + data[off + 2]

\* A big-endian c_uint at byte offset off.
c_uint(data, off) == uint32(c_ushort(data, off), c_ushort(data, off + 2))

\* A c_char * n field at offset off, as ctypes hands it out: the bytes up
\* to the first NUL.
RECURSIVE until_nul(_)
until_nul(data) ==
    IF data = <<>> \/ data[1] = 0 THEN <<>> ELSE <<data[1]>> \o until_nul(Tail(data))

c_char_array(data, off, n) == until_nul(SubSeq(data, off + 1, off + n))

\* raw * 0.1 and raw * 0.01 are kept as the raw count and the number of
\* counts per unit; a raw integer has per = 1.  None is <<>>.
Scaled(raw, per) == <<[raw |-> raw, per |-> per]>>

\* _AcOutput.get_power
get_power(power) == IF power = UINT16_MAX THEN <<>> ELSE Scaled(power, 1)

\* _AcOutput.get_frequency
get_frequency(frequency) ==
    IF frequency = UINT16_MAX THEN <<>> ELSE Scaled(frequency, 100)

\* A mutant: list_divide_10 without its sentinel.
list_divide_10_no_sentinel(data, off) ==
    [i \in 1..3 |-> Scaled(c_ushort(data, off + 2 * (i - 1)), 10)]

\* list_divide_10, on the three c_ushort found from offset off
list_divide_10(data, off) ==
    [i \in 1..3 |->
        LET v == c_ushort(data, off + 2 * (i - 1))
        IN  IF v = UINT16_MAX THEN <<>> ELSE Scaled(v, 10)]

\* A mutant: the temperature with the sentinel of the other fields.
temperature_to_float_uint16_max(temp) ==
    IF temp = UINT16_MAX THEN <<>> ELSE Scaled(temp, 10)

\* temperature_to_float
temperature_to_float(temp) == IF temp = 65326 THEN <<>> ELSE Scaled(temp, 10)

\* A mutant: int_to_bool as bool(num).
int_to_bool_truthy(num) == IF num = 0 THEN <<FALSE>> ELSE <<TRUE>>

\* int_to_bool: the dictionary lookup; <<>> is the KeyError of a missing key.
int_to_bool(num) ==
    IF num = 0 THEN <<FALSE>> ELSE IF num = 1 THEN <<TRUE>> ELSE <<>>

\* What _parse_information_reply gives: the dictionary, or the exception.
Parsed(record) == [error |-> "", info |-> <<record>>]
ParseFailed(name) == [error |-> name, info |-> <<>>]

\* _parse_information_reply(data): from_buffer_copy wants at least
\* sizeof(_TcpData) bytes and ignores what follows them; the fields are
\* extracted in the order of field_extractors, so the first failing one
\* decides the exception.
_parse_information_reply(data) ==
    IF Len(data) < TCP_DATA_SIZE THEN ParseFailed("ValueError")
    ELSE IF ~utf8_valid(c_char_array(data, 3, 16)) THEN ParseFailed("UnicodeDecodeError")
    ELSE IF int_to_bool(c_ushort(data, 67)) = <<>> THEN ParseFailed("KeyError")
    ELSE IF ~utf8_valid(c_char_array(data, 85, 16)) THEN ParseFailed("UnicodeDecodeError")
    ELSE IF ~utf8_valid(c_char_array(data, 105, 16)) THEN ParseFailed("UnicodeDecodeError")
    ELSE Parsed(
        [serial_number |-> c_char_array(data, 3, 16),
         temperature |-> temperature_to_float(c_ushort(data, 19)),
         dc_input_voltage |-> list_divide_10(data, 21),
         dc_input_current |-> list_divide_10(data, 27),
         ac_output_current |-> list_divide_10(data, 33),
         ac_output_voltage |-> list_divide_10(data, 39),
         ac_output_frequency |->
            [i \in 1..3 |-> get_frequency(c_ushort(data, 45 + 4 * (i - 1)))],
         ac_output_power |->
            [i \in 1..3 |-> get_power(c_ushort(data, 47 + 4 * (i - 1)))],
         solar_energy_today |-> Scaled(c_ushort(data, 57), 100),
         solar_energy_total |-> Scaled(c_uint(data, 59), 10),
         solar_hours_total |-> Scaled(c_uint(data, 63), 1),
         inverter_active |-> int_to_bool(c_ushort(data, 67))[1],
         firmware |-> c_char_array(data, 85, 16),
         firmware_slave |-> c_char_array(data, 105, 16)])

---------------------------------------------------------------------------
(* parse_messages: the body of its loop, for one frame the generator       *)
(* yielded.  It gives the new value of info, the exception raised ("" if   *)
(* none) and the lines it logs.                                            *)

Handled(new_info, lines) == [error |-> "", info |-> new_info, lines |-> lines]
HandleFailed(text, old_info, lines) == [error |-> text, info |-> old_info, lines |-> lines]

SerialNote(serial, reply) ==
    IF reply.serial # serial
    THEN <<"Replied serial number not equal to request">> ELSE <<>>

\* A mutant: a reply for another serial number is refused.
parse_messages_body_strict_serial(serial, old_info, reply) ==
    IF reply.serial # serial
    THEN HandleFailed("Serial number mismatch in reply", old_info, <<>>)
    ELSE IF reply.message_type = MESSAGE_TYPE_INFORMATION_REPLY
    THEN LET parsed == _parse_information_reply(reply.payload)
         IN  IF parsed.error # "" THEN HandleFailed(parsed.error, old_info, <<>>)
             ELSE Handled(parsed.info, <<>>)
    ELSE IF reply.message_type = MESSAGE_TYPE_STRING
    THEN IF utf8_valid(reply.payload) THEN Handled(old_info, <<"Omnik sent text message">>)
         ELSE HandleFailed("UnicodeDecodeError", old_info, <<>>)
    ELSE IF reply.message_type = MESSAGE_TYPE_ERROR_STRING
    THEN Handled(old_info, <<"Omnik sent error message">>)
    ELSE HandleFailed("Unknown Omnik message type", old_info, <<>>)

\* A mutant: once an information reply was decoded, later ones are left
\* aside.
parse_messages_body_first_wins(serial, old_info, reply) ==
    LET note == SerialNote(serial, reply)
    IN  IF reply.message_type = MESSAGE_TYPE_INFORMATION_REPLY
        THEN IF old_info # <<>>
             THEN Handled(old_info,
                          note \o <<"Omnik sent multiple INFORMATION_REPLY messages">>)
             ELSE LET parsed == _parse_information_reply(reply.payload)
                  IN  IF parsed.error # ""
                      THEN HandleFailed(parsed.error, old_info, note)
                      ELSE Handled(parsed.info, note)
        ELSE IF reply.message_type = MESSAGE_TYPE_STRING
        THEN IF utf8_valid(reply.payload)
             THEN Handled(old_info, note \o <<"Omnik sent text message">>)
             ELSE HandleFailed("UnicodeDecodeError", old_info, note)
        ELSE IF reply.message_type = MESSAGE_TYPE_ERROR_STRING
        THEN Handled(old_info, note \o <<"Omnik sent error message">>)
        ELSE HandleFailed("Unknown Omnik message type", old_info, note)

\* Lines 203-224.  The text of a MESSAGE_TYPE_STRING frame is decoded to
\* build the log line, and that raises when it is not UTF-8.
parse_messages_body(serial, old_info, reply) ==
    LET note == SerialNote(serial, reply)
    IN  IF reply.message_type = MESSAGE_TYPE_INFORMATION_REPLY
        THEN LET again == IF old_info # <<>>
                          THEN <<"Omnik sent multiple INFORMATION_REPLY messages">>
                          ELSE <<>>
                 parsed == _parse_information_reply(reply.payload)
             IN  IF parsed.error # ""
                 THEN HandleFailed(parsed.error, old_info, note \o again)
                 ELSE Handled(parsed.info, note \o again)
        ELSE IF reply.message_type = MESSAGE_TYPE_STRING
        THEN IF utf8_valid(reply.payload)
             THEN Handled(old_info, note \o <<"Omnik sent text message">>)
             ELSE HandleFailed("UnicodeDecodeError", old_info, note)
        ELSE IF reply.message_type = MESSAGE_TYPE_ERROR_STRING
        THEN Handled(old_info, note \o <<"Omnik sent error message">>)
        ELSE HandleFailed("Unknown Omnik message type", old_info, note)

---------------------------------------------------------------------------
(* The bytes a connection may deliver: Spec.  A stream is up to MaxFrames  *)
(* pieces, each a frame of the wire format or a damaged one, followed by   *)
(* the end of the connection or by the 0xFF that ends a burst.             *)

\* Most pieces in one stream.
MaxFrames == 2

\* The serial number asked for, and another one.
RequestSerials == {uint32(1883, 52501), uint32(0, 1)}

be16(v) == <<v \div 256, v % 256>>

Repeat(b, n) == [i \in 1..n |-> b]

\* An information reply payload: the _TcpData layout with the given
\* temperature and inverter_active words and with `extra` bytes after it.
InfoPayload(temperature, active, extra) ==
    <<129, 2, 1>>                                        \* padding0
    \o <<78, 76, 68, 78>> \o Repeat(49, 12)              \* serial_number
    \o be16(temperature)
    \o be16(2300) \o be16(2310) \o be16(65535)           \* dc_input_voltage
    \o be16(12) \o be16(0) \o be16(65535)                \* dc_input_current
    \o be16(25) \o be16(65535) \o be16(65535)            \* ac_output_current
    \o be16(2390) \o be16(65535) \o be16(65535)          \* ac_output_voltage
    \o be16(5001) \o be16(597)                           \* ac_output[0]
    \o be16(65535) \o be16(65535)                        \* ac_output[1]
    \o be16(65535) \o be16(65535)                        \* ac_output[2]
    \o be16(1234)                                        \* solar_energy_today
    \o be16(1) \o be16(34464)                            \* solar_energy_total
    \o be16(0) \o be16(4321)                             \* solar_hours_total
    \o be16(active)
    \o Repeat(0, 4) \o be16(0) \o Repeat(0, 10)
    \o <<86, 49>> \o Repeat(0, 14) \o Repeat(0, 4)       \* firmware
    \o <<86, 50>> \o Repeat(0, 14) \o Repeat(0, 4)       \* firmware_slave
    \o Repeat(0, extra)

\* One frame on the wire.  `length` is the length byte, whatever the
\* payload holds; skew is added to the checksum.
WireFrame(w) ==
    LET head == <<w.length, w.sep, w.message_type>>
                    \o to_bytes_little(w.serial0) \o to_bytes_little(w.serial1)
                    \o w.payload
    IN  <<w.start>> \o head \o <<(sum(head) + w.skew) % 256, w.last>>

\* A frame as the decoder takes it: the length byte counts the payload.
Reply(message_type, serial, payload) ==
    [start |-> MESSAGE_START, length |-> Len(payload), sep |-> MESSAGE_RECV_SEP,
     message_type |-> message_type, serial0 |-> serial, serial1 |-> serial,
     payload |-> payload, skew |-> 0, last |-> MESSAGE_END]

Asked == uint32(1883, 52501)
Other == uint32(0, 1)

Pieces ==
    { WireFrame(Reply(MESSAGE_TYPE_INFORMATION_REPLY, Asked, InfoPayload(250, 1, 0))),
      WireFrame(Reply(MESSAGE_TYPE_INFORMATION_REPLY, Other, InfoPayload(65326, 0, 1))),
      WireFrame(Reply(MESSAGE_TYPE_INFORMATION_REPLY, Asked, InfoPayload(250, 2, 0))),
      WireFrame(Reply(MESSAGE_TYPE_INFORMATION_REPLY, Asked, <<129, 2, 1>>)),
      WireFrame(Reply(MESSAGE_TYPE_ERROR_STRING, Asked, <<69>>)),
      WireFrame(Reply(MESSAGE_TYPE_STRING, Other, <<111, 107>>)),
      WireFrame(Reply(MESSAGE_TYPE_STRING, Asked, <<255>>)),
      WireFrame(Reply(MESSAGE_TYPE_INFORMATION_REQUEST, Asked, <<1, 0>>)),
      WireFrame([Reply(MESSAGE_TYPE_ERROR_STRING, Asked, <<69>>) EXCEPT !.skew = 1]),
      WireFrame([Reply(MESSAGE_TYPE_ERROR_STRING, Asked, <<69>>)
                    EXCEPT !.sep = MESSAGE_SEND_SEP]),
      WireFrame([Reply(MESSAGE_TYPE_ERROR_STRING, Asked, <<69>>) EXCEPT !.serial1 = Other]),
      WireFrame([Reply(MESSAGE_TYPE_ERROR_STRING, Asked, <<69>>) EXCEPT !.last = 0]),
      WireFrame([Reply(MESSAGE_TYPE_ERROR_STRING, Asked, <<69>>)
                    EXCEPT !.skew = 1, !.last = 0]),
      \* the length byte counting the two serial copies as well
      WireFrame([Reply(MESSAGE_TYPE_ERROR_STRING, Asked, <<69, 70>>) EXCEPT !.length = 10]),
      \* frames cut short: after the start byte, inside the body, before
      \* the end byte
      <<MESSAGE_START>>,
      <<MESSAGE_START, 1, MESSAGE_RECV_SEP>>,
      LET whole == WireFrame(Reply(MESSAGE_TYPE_INFORMATION_REPLY, Asked,
                                   InfoPayload(250, 1, 0)))
      IN  SubSeq(whole, 1, Len(whole) - 1),
      \* not a start marker
      <<0>> }

Tails == { <<>>, <<STREAM_END, MESSAGE_START>> }

RECURSIVE Concat(_)
Concat(pieces) == IF pieces = <<>> THEN <<>> ELSE pieces[1] \o Concat(Tail(pieces))

Streams ==
    { Concat(pieces) \o tail :
        pieces \in UNION {[1..n -> Pieces] : n \in 0..MaxFrames}, tail \in Tails }

---------------------------------------------------------------------------
(* parse_messages(serial_number, reader) driving _unpack_messages(reader). *)
(* pc is the place where the pair stands: the generator's next read, its   *)
(* yield, the loop body of parse_messages, the code after the loop.        *)
(* gen is the generator: "active", "exhausted" once it returned, "raised"  *)
(* once an exception left it.                                              *)

CodecUnused ==
    /\ call = "none" /\ origin = "none" /\ args = <<>> /\ frame = <<>>
    /\ body = <<>> /\ out = <<>> /\ flip = <<>>

Init ==
    /\ CodecUnused /\ ReplyUnused /\ RequestUnused
    /\ stream \in Streams
    /\ serial_number \in RequestSerials
    /\ pos = 0 /\ pc = "read_start" /\ gen = "active"
    /\ original_length = 0 /\ message = <<>> /\ yielded = <<>>
    /\ info = <<>> /\ error = "" /\ result = <<>> /\ log = <<>>

\* reader.readexactly(n) with fewer than n bytes left before the end of
\* the connection: IncompleteReadError leaves the generator and the call.
AtEnd(n) == pos + n > Len(stream)

Fail(text) ==
    /\ error' = text /\ pc' = "raised"
    /\ UNCHANGED <<stream, serial_number, info, result, yielded>>

IncompleteRead ==
    /\ pos' = Len(stream) /\ gen' = "raised"
    /\ Fail("IncompleteReadError")
    /\ UNCHANGED <<original_length, message, log>>

\* A mutant: 0xFF is skipped and the loop goes on (`continue`).
ReadStart_continue ==
    /\ pc = "read_start"
    /\ IF AtEnd(1) THEN IncompleteRead
       ELSE /\ pos' = pos + 1
            /\ UNCHANGED <<original_length, message, log>>
            /\ IF stream[pos + 1] = STREAM_END
               THEN /\ pc' = "read_start" /\ gen' = gen
                    /\ UNCHANGED <<stream, serial_number, info, result, yielded, error>>
               ELSE IF stream[pos + 1] # MESSAGE_START
               THEN gen' = "raised" /\ Fail("Invalid start byte")
               ELSE /\ pc' = "read_length" /\ gen' = gen
                    /\ UNCHANGED <<stream, serial_number, info, result, yielded, error>>
    /\ UNCHANGED codec_vars /\ UNCHANGED <<reply_vars, request_vars>>

\* A mutant: the end of the connection between two frames ends the
\* sequence like 0xFF does.
ReadStart_eof_ends ==
    /\ pc = "read_start"
    /\ IF AtEnd(1)
       THEN /\ pc' = "after_loop" /\ gen' = "exhausted" /\ pos' = pos
            /\ UNCHANGED <<stream, serial_number, info, result, yielded, error,
                           original_length, message, log>>
       ELSE /\ pos' = pos + 1
            /\ UNCHANGED <<original_length, message, log>>
            /\ IF stream[pos + 1] = STREAM_END
               THEN /\ pc' = "after_loop" /\ gen' = "exhausted"
                    /\ UNCHANGED <<stream, serial_number, info, result, yielded, error>>
               ELSE IF stream[pos + 1] # MESSAGE_START
               THEN gen' = "raised" /\ Fail("Invalid start byte")
               ELSE /\ pc' = "read_length" /\ gen' = gen
                    /\ UNCHANGED <<stream, serial_number, info, result, yielded, error>>
    /\ UNCHANGED codec_vars /\ UNCHANGED <<reply_vars, request_vars>>

\* Lines 137-146: read the start byte; 0xFF ends the sequence.
ReadStart ==
    /\ pc = "read_start"
    /\ IF AtEnd(1) THEN IncompleteRead
       ELSE /\ pos' = pos + 1
            /\ UNCHANGED <<original_length, message, log>>
            /\ IF stream[pos + 1] = STREAM_END
               THEN /\ pc' = "after_loop" /\ gen' = "exhausted"
                    /\ UNCHANGED <<stream, serial_number, info, result, yielded, error>>
               ELSE IF stream[pos + 1] # MESSAGE_START
               THEN gen' = "raised" /\ Fail("Invalid start byte")
               ELSE /\ pc' = "read_length" /\ gen' = gen
                    /\ UNCHANGED <<stream, serial_number, info, result, yielded, error>>
    /\ UNCHANGED codec_vars /\ UNCHANGED <<reply_vars, request_vars>>

\* Lines 148-149: read the length byte.
ReadLength ==
    /\ pc = "read_length"
    /\ IF AtEnd(1) THEN IncompleteRead
       ELSE /\ pos' = pos + 1
            /\ original_length' = stream[pos + 1]
            /\ pc' = "read_message" /\ gen' = gen
            /\ UNCHANGED <<stream, serial_number, info, result, yielded, error,
                           message, log>>
    /\ UNCHANGED codec_vars /\ UNCHANGED <<reply_vars, request_vars>>

\* Lines 149-159: read length - 1 bytes and put the length byte in front.
ReadMessage ==
    /\ pc = "read_message"
    /\ LET length == original_length + MESSAGE_HEADER_SIZE
           data == <<original_length>> \o SubSeq(stream, pos + 1, pos + length - 1)
       IN  IF AtEnd(length - 1) THEN IncompleteRead
           ELSE /\ pos' = pos + length - 1
                /\ message' = data
                /\ UNCHANGED <<original_length, log>>
                /\ IF Len(data) # length
                   THEN gen' = "raised" /\ Fail("Could only read part of the message")
                   ELSE /\ pc' = "read_end" /\ gen' = gen
                        /\ UNCHANGED <<stream, serial_number, info, result, yielded,
                                       error>>
    /\ UNCHANGED codec_vars /\ UNCHANGED <<reply_vars, request_vars>>

\* A mutant: the end byte is looked at and left in the reader.
ReadEnd_peek ==
    /\ pc = "read_end"
    /\ IF AtEnd(1) THEN IncompleteRead
       ELSE /\ pos' = pos
            /\ UNCHANGED <<original_length, message, log>>
            /\ IF stream[pos + 1] # MESSAGE_END
               THEN gen' = "raised" /\ Fail("Invalid end byte")
               ELSE /\ pc' = "yield" /\ gen' = gen
                    /\ UNCHANGED <<stream, serial_number, info, result, yielded, error>>
    /\ UNCHANGED codec_vars /\ UNCHANGED <<reply_vars, request_vars>>

\* A mutant: the body is decoded first, the end byte read afterwards.
ReadEnd_after_decode ==
    /\ pc = "read_end"
    /\ IF _unpack_message(message).error # ""
       THEN /\ gen' = "raised" /\ Fail(_unpack_message(message).error)
            /\ UNCHANGED <<pos, original_length, message, log>>
       ELSE IF AtEnd(1) THEN IncompleteRead
       ELSE /\ pos' = pos + 1
            /\ UNCHANGED <<original_length, message, log>>
            /\ IF stream[pos + 1] # MESSAGE_END
               THEN gen' = "raised" /\ Fail("Invalid end byte")
               ELSE /\ pc' = "yield" /\ gen' = gen
                    /\ UNCHANGED <<stream, serial_number, info, result, yielded, error>>
    /\ UNCHANGED codec_vars /\ UNCHANGED <<reply_vars, request_vars>>

\* Lines 161-163: read the end byte.
ReadEnd ==
    /\ pc = "read_end"
    /\ IF AtEnd(1) THEN IncompleteRead
       ELSE /\ pos' = pos + 1
            /\ UNCHANGED <<original_length, message, log>>
            /\ IF stream[pos + 1] # MESSAGE_END
               THEN gen' = "raised" /\ Fail("Invalid end byte")
               ELSE /\ pc' = "yield" /\ gen' = gen
                    /\ UNCHANGED <<stream, serial_number, info, result, yielded, error>>
    /\ UNCHANGED codec_vars /\ UNCHANGED <<reply_vars, request_vars>>

\* A mutant: a frame that does not decode is dropped and the loop goes on.
Yield_swallow ==
    /\ pc = "yield"
    /\ LET reply == _unpack_message(message)
       IN  IF reply.error # ""
           THEN /\ pc' = "read_start" /\ yielded' = yielded
                /\ gen' = gen /\ error' = error
           ELSE /\ yielded' = Append(yielded, reply)
                /\ pc' = "loop_body" /\ gen' = gen /\ error' = error
    /\ UNCHANGED <<stream, pos, serial_number, original_length, message, info,
                   result, log>>
    /\ UNCHANGED codec_vars /\ UNCHANGED <<reply_vars, request_vars>>

\* Line 165: decode the frame body and yield the frame.
Yield ==
    /\ pc = "yield"
    /\ LET reply == _unpack_message(message)
       IN  IF reply.error # ""
           THEN /\ gen' = "raised" /\ error' = reply.error /\ pc' = "raised"
                /\ yielded' = yielded
           ELSE /\ yielded' = Append(yielded, reply)
                /\ pc' = "loop_body" /\ gen' = gen /\ error' = error
    /\ UNCHANGED <<stream, pos, serial_number, original_length, message, info,
                   result, log>>
    /\ UNCHANGED codec_vars /\ UNCHANGED <<reply_vars, request_vars>>

\* Lines 202-224: parse_messages takes the frame that was yielded.
LoopBody ==
    /\ pc = "loop_body"
    /\ LET done == parse_messages_body(serial_number, info, yielded[Len(yielded)])
       IN  /\ log' = log \o done.lines
           /\ info' = done.info
           /\ error' = done.error
           /\ pc' = IF done.error # "" THEN "raised" ELSE "read_start"
    /\ UNCHANGED <<stream, pos, serial_number, original_length, message, yielded,
                   result, gen>>
    /\ UNCHANGED codec_vars /\ UNCHANGED <<reply_vars, request_vars>>

\* A mutant: whatever info holds is returned.
AfterLoop_unchecked ==
    /\ pc = "after_loop"
    /\ result' = info /\ error' = error /\ pc' = "returned"
    /\ UNCHANGED <<stream, pos, serial_number, original_length, message, yielded,
                   info, log, gen>>
    /\ UNCHANGED codec_vars /\ UNCHANGED <<reply_vars, request_vars>>

\* Lines 226-231: after the loop, raise when no information reply came.
AfterLoop ==
    /\ pc = "after_loop"
    /\ IF info = <<>>
       THEN /\ error' = "None of the messages contained an information reply!"
            /\ pc' = "raised" /\ result' = result
       ELSE /\ result' = info /\ error' = error /\ pc' = "returned"
    /\ UNCHANGED <<stream, pos, serial_number, original_length, message, yielded,
                   info, log, gen>>
    /\ UNCHANGED codec_vars /\ UNCHANGED <<reply_vars, request_vars>>

Next ==
    \/ ReadStart
    \/ ReadLength
    \/ ReadMessage
    \/ ReadEnd
    \/ Yield
    \/ LoopBody
    \/ AfterLoop

Spec == Init /\ [][Next]_vars

---------------------------------------------------------------------------
(* Properties of the stream decoder and of parse_messages, under Spec.     *)

KnownTypes ==
    {MESSAGE_TYPE_INFORMATION_REPLY, MESSAGE_TYPE_ERROR_STRING, MESSAGE_TYPE_STRING}

\* The frame the loop body is about to take.
Current == yielded[Len(yielded)]

\* C4: when the stream decoder reads 0xFF where a start marker is expected,
\* the sequence ends without error: the generator is exhausted, it reads
\* no further byte and yields no further frame, and the frames yielded
\* before stay as they were; a stream that starts with 0xFF yields nothing.
C4_StreamTermination ==
    /\ [][ /\ (pc = "read_start" /\ pos < Len(stream) /\ stream[pos + 1] = 255)
              => /\ gen' = "exhausted" /\ error' = "" /\ pc' = "after_loop"
                 /\ pos' = pos + 1 /\ yielded' = yielded
           /\ gen = "exhausted"
              => (gen' = "exhausted" /\ pos' = pos /\ yielded' = yielded) ]_vars
    /\ []((gen = "exhausted" /\ stream[1] = 255) => (yielded = <<>> /\ pos = 1))

C4_Witness ==
    /\ gen = "exhausted" /\ pc = "returned" /\ Len(yielded) = 2
    /\ pos < Len(stream)

\* What parse_messages would have made of the frames yielded so far had it
\* been called with the serial number s: the fold of its loop body.
RECURSIVE LoopOver(_, _, _)
LoopOver(s, old_info, frames) ==
    IF frames = <<>> THEN [error |-> "", info |-> old_info]
    ELSE LET done == parse_messages_body(s, old_info, frames[1])
         IN  IF done.error # "" THEN [error |-> done.error, info |-> <<>>]
             ELSE LoopOver(s, done.info, Tail(frames))

\* The outcome of the call with the serial number s, the decoder having
\* behaved as it did: the record returned, or the error raised.
OutcomeFor(s) ==
    LET loop == LoopOver(s, <<>>, yielded)
    IN  IF loop.error # "" THEN [error |-> loop.error, result |-> <<>>]
        ELSE IF gen = "raised" THEN [error |-> error, result |-> <<>>]
        ELSE IF loop.info = <<>>
        THEN [error |-> "None of the messages contained an information reply!",
              result |-> <<>>]
        ELSE [error |-> "", result |-> loop.info]

C7_UnknownTypeFatal ==
    [][ pc = "loop_body"
        => /\ Current.message_type \notin KnownTypes
              => (pc' = "raised" /\ error' = "Unknown Omnik message type"
                    /\ result' = <<>>)
           /\ Current.message_type \in {177, 240}
              => (pc' # "raised" /\ error' = "" /\ info' = info
                    /\ result' = result) ]_vars

\* C8: when the sequence ended without error and no frame of type 0xB0 was
\* received, parse_messages raises "no information reply" and returns
\* nothing; when it ended without error and a 0xB0 frame was decoded, it
\* returns a record.
C8_NoInformationReply ==
    (gen = "exhausted" /\ pc \in {"returned", "raised"})
    => IF \E i \in 1..Len(yielded) : yielded[i].message_type = 176
       THEN pc = "returned" /\ error = "" /\ Len(result) = 1
       ELSE /\ pc = "raised" /\ result = <<>>
            /\ error = "None of the messages contained an information reply!"

C8_Witness ==
    /\ gen = "exhausted" /\ pc = "raised" /\ Len(yielded) = 2
    /\ \A i \in 1..2 : yielded[i].message_type # 176
    /\ error = "None of the messages contained an information reply!"

\* C9 as stated: after the length byte L the decoder reads L + 10 bytes
\* (HEADER_SIZE = 11) as the rest of the body, and the next byte is the
\* one checked against the end marker.
C9_FrameExtentHeader11 ==
    [][ (pc = "read_message" /\ pc' = "read_end")
        => (pos' = pos + original_length + 10
              /\ Len(message') = original_length + 11) ]_vars

\* C9 amended: after the length byte L the decoder reads exactly
\* L + MESSAGE_HEADER_SIZE - 1 further bytes with MESSAGE_HEADER_SIZE = 12
\* (that is L + 11) as the rest of the body, checksum included, or fails
\* when the connection ends before; the byte read next is the one checked
\* against the end marker 0x16.
C9_FrameExtentHeader12 ==
    [][ /\ pc = "read_message"
           => \/ /\ pc' = "read_end"
                 /\ pos' = pos + original_length + 11
                 /\ message' = <<original_length>>
                                 \o SubSeq(stream, pos + 1, pos + original_length + 11)
              \/ /\ pc' = "raised" /\ error' = "IncompleteReadError"
                 /\ Len(stream) < pos + original_length + 11
        /\ (pc = "read_end" /\ pos < Len(stream))
           => /\ pos' = pos + 1
              /\ IF stream[pos + 1] = 22 THEN pc' = "yield"
                 ELSE pc' = "raised" /\ error' = "Invalid end byte" ]_vars

C9_Witness ==
    /\ pc = "read_end" /\ original_length = 125 /\ Len(message) = 137
    /\ pos = 138 /\ pos < Len(stream) /\ stream[pos + 1] = 22

\* C10 as stated: the payload of a frame yielded for the length byte L has
\* L - 8 bytes.
C10_PayloadLengthLMinus8 ==
    pc = "loop_body" => Len(Current.payload) = original_length - 8

\* C10 amended: the payload of a frame the stream decoder yields for the
\* length byte L has exactly L bytes.
C10_PayloadLengthL ==
    pc = "loop_body" => Len(Current.payload) = original_length

C10_Witness ==
    pc = "loop_body" /\ original_length = 125 /\ Len(Current.payload) = 125

---------------------------------------------------------------------------
(* The stream read as the wire format lays it out, frame after frame from  *)
(* byte offset s, without the decoder: what the properties below compare   *)
(* the decoder with.                                                       *)

\* The frame that starts after s bytes: its length byte, its last byte.
LengthAt(s) == stream[s + 2]
EndOf(s) == s + LengthAt(s) + 14

WholeAt(s) == s + 2 <= Len(stream) /\ EndOf(s) <= Len(stream)

ChecksumOkAt(s) ==
    stream[EndOf(s) - 1] = sum_between(stream, s + 2, EndOf(s) - 2) % 256

SerialsAgreeAt(s) == \A i \in 5..8 : stream[s + i] = stream[s + i + 4]

\* A frame the decoder has to accept.
ValidFrameAt(s) ==
    /\ WholeAt(s)
    /\ stream[s + 1] = 104 /\ stream[s + 3] = 65 /\ stream[EndOf(s)] = 22
    /\ ChecksumOkAt(s) /\ SerialsAgreeAt(s)

\* Type, serial number and payload as they stand in that frame.
WireReply(s) ==
    [error |-> "", message_type |-> stream[s + 4],
     serial |-> [hi |-> stream[s + 7] + 256 * stream[s + 8],
                 lo |-> stream[s + 5] + 256 * stream[s + 6]],
     payload |-> SubSeq(stream, s + 13, EndOf(s) - 2)]

\* The frames of a stream made of valid frames and then 0xFF (ok), from s.
RECURSIVE WireFrames(_)
WireFrames(s) ==
    IF s >= Len(stream) THEN [ok |-> FALSE, frames |-> <<>>]
    ELSE IF stream[s + 1] = 255 THEN [ok |-> TRUE, frames |-> <<>>]
    ELSE IF ~ValidFrameAt(s) THEN [ok |-> FALSE, frames |-> <<>>]
    ELSE LET rest == WireFrames(EndOf(s))
         IN  [ok |-> rest.ok, frames |-> <<WireReply(s)>> \o rest.frames]

\* C11: on a stream of k valid frames followed by 0xFF the decoder never
\* fails, the i-th frame it yields is the i-th frame on the wire, and when
\* it is exhausted it has yielded exactly k frames: none skipped, none
\* twice, none out of order.
C11_Ordering ==
    LET wire == WireFrames(0)
    IN  wire.ok
        => /\ gen # "raised"
           /\ Len(yielded) <= Len(wire.frames)
           /\ \A i \in 1..Len(yielded) : yielded[i] = wire.frames[i]
           /\ gen = "exhausted" => Len(yielded) = Len(wire.frames)

C11_Witness ==
    /\ WireFrames(0).ok /\ gen = "exhausted"
    /\ Len(yielded) = 2 /\ yielded[1].message_type # yielded[2].message_type

\* A whole frame at s that some check refuses: of the stream decoder, of
\* the frame decode step, or of the loop body of parse_messages.
FrameFails(s) ==
    \/ stream[EndOf(s)] # 22
    \/ ~ChecksumOkAt(s) \/ stream[s + 3] # 65 \/ ~SerialsAgreeAt(s)
    \/ WireReply(s).message_type \notin KnownTypes
    \/ /\ WireReply(s).message_type = 176
       /\ _parse_information_reply(WireReply(s).payload).error # ""
    \/ WireReply(s).message_type = 240 /\ ~utf8_valid(WireReply(s).payload)

\* Where the first failing frame at or after s ends (a byte that is no
\* start marker is its own whole frame); 0 when the 0xFF or the end of the
\* connection comes before any frame fails.
RECURSIVE FirstFailure(_)
FirstFailure(s) ==
    IF s >= Len(stream) \/ stream[s + 1] = 255 THEN 0
    ELSE IF stream[s + 1] # 104 THEN s + 1
    ELSE IF ~WholeAt(s) THEN 0
    ELSE IF FrameFails(s) THEN EndOf(s)
    ELSE FirstFailure(EndOf(s))

\* C15: when a frame of the stream fails a check, parse_messages raises at
\* that frame: it never reads a byte past the end of that frame, never
\* goes on to a next frame, and returns no record, whatever it decoded
\* from the frames before.
C15_ErrorsPropagate ==
    LET e == FirstFailure(0)
    IN  e > 0
        => /\ pos <= e /\ result = <<>>
           /\ pc \notin {"returned", "after_loop"}
           /\ pos = e => pc \in {"yield", "loop_body", "raised"}
           /\ pc = "raised"
              => /\ pos = e
                 /\ error \notin {"", "IncompleteReadError",
                        "None of the messages contained an information reply!"}

C15_Witness ==
    /\ pc = "raised" /\ error = "Checksum mismatch"
    /\ info # <<>> /\ result = <<>>
    /\ FirstFailure(0) = pos /\ pos < Len(stream)

\* Where the frame begins that holds the p-th byte of the stream, scanning
\* whole frames from s.
RECURSIVE StartOfFrame(_, _)
StartOfFrame(s, p) ==
    IF ~WholeAt(s) \/ p <= EndOf(s) THEN s ELSE StartOfFrame(EndOf(s), p)

\* Where the frame ends that holds the p-th byte, -1 when the connection
\* ends inside it.
FrameEnd(p) ==
    LET s == StartOfFrame(0, p) IN IF WholeAt(s) THEN EndOf(s) ELSE -1

\* The body the decoder holds fails the checksum.
BodyFailsChecksum ==
    message # <<>> /\ _unpack_message(message).error = "Checksum mismatch"

\* C17 as the specification words it: the body is decoded before the end
\* marker is read, so no body that fails the checksum gets as far as the
\* read of the end marker, a checksum failure leaves the byte after the
\* body unread, and a body failing the checksum is reported as such
\* whatever the byte after it.
C17_DecodeBeforeEndMarker ==
    /\ pc = "read_end" => ~BodyFailsChecksum
    /\ (pc = "raised" /\ error = "Checksum mismatch")
          => pos = FrameEnd(pos) - 1
    /\ (pc = "raised" /\ error = "Invalid end byte") => ~BodyFailsChecksum

\* C17: the end marker is read first and the body decoded afterwards
\* (lines 161-165).  A body is decoded only once the byte after it was
\* read and found to be 0x16; a checksum failure is raised with that byte
\* consumed; a frame with a wrong byte after the body is refused with
\* "Invalid end byte" whatever its checksum.
C17_EndMarkerBeforeDecode ==
    /\ pc = "yield" => (pos = FrameEnd(pos) /\ stream[pos] = 22)
    /\ (pc = "raised" /\ error = "Checksum mismatch")
          => (pos = FrameEnd(pos) /\ stream[pos] = 22)
    /\ (pc = "raised" /\ pos = FrameEnd(pos) /\ stream[pos] # 22)
          => error = "Invalid end byte"

C17_Witness ==
    /\ pc = "raised" /\ error = "Invalid end byte" /\ BodyFailsChecksum
    /\ pos = FrameEnd(pos)

\* Where the 0xFF stands that ends the sequence, counting bytes from 1:
\* the first one met at a frame boundary, frames being taken by their
\* length byte; 0 when the connection ends before one.
RECURSIVE TerminatorFrom(_)
TerminatorFrom(s) ==
    IF s >= Len(stream) THEN 0
    ELSE IF stream[s + 1] = 255 THEN s + 1
    ELSE IF ~WholeAt(s) THEN 0
    ELSE TerminatorFrom(EndOf(s))

\* C18: parse_messages returns a record only with the decoder exhausted on
\* the 0xFF at a frame boundary; when the connection ends before such a
\* 0xFF the call never returns, and a read that meets the end of the
\* connection raises, no record returned, an information reply decoded
\* just before included.
C18_RecordOnlyAfterTerminator ==
    /\ pc = "returned"
          => /\ gen = "exhausted" /\ result # <<>>
             /\ pos = TerminatorFrom(0) /\ pos > 0 /\ stream[pos] = 255
    /\ TerminatorFrom(0) = 0 => (pc # "returned" /\ result = <<>>)
    /\ (pc = "raised" /\ gen = "raised" /\ pos = Len(stream)
           /\ TerminatorFrom(0) = 0 /\ FirstFailure(0) = 0)
          => (error = "IncompleteReadError" /\ result = <<>>)

C18_Witness ==
    /\ pc = "raised" /\ error = "IncompleteReadError"
    /\ Len(yielded) = 1 /\ info # <<>> /\ result = <<>>
    /\ Len(stream) = EndOf(0) /\ pos = Len(stream)

\* The places of the information replies among the frames yielded.
InformationReplies ==
    {i \in 1..Len(yielded) : yielded[i].message_type = 176}

\* C19: a call that returns gives the decoding of the last information
\* reply yielded, whatever the earlier ones held; an information reply
\* that does not decode, first or last, stops the call at that frame
\* without a record.
C19_LastInformationReplyWins ==
    /\ pc = "returned"
          => LET last == CHOOSE i \in InformationReplies :
                             \A j \in InformationReplies : j <= i
             IN  /\ InformationReplies # {}
                 /\ result = _parse_information_reply(yielded[last].payload).info
                 /\ result # <<>>
    /\ \A i \in InformationReplies :
          _parse_information_reply(yielded[i].payload).error # ""
          => /\ i = Len(yielded) /\ pc \in {"loop_body", "raised"}
             /\ result = <<>>

C19_Witness ==
    /\ pc = "returned" /\ InformationReplies = {1, 2}
    /\ _parse_information_reply(yielded[1].payload).info # result
    /\ _parse_information_reply(yielded[2].payload).info = result

---------------------------------------------------------------------------
(* SpecReply: _parse_information_reply on its own.  The inverter fills a   *)
(* _TcpData structure with raw field values and sends its bytes, possibly  *)
(* cut short or followed by more bytes; the client then parses them.       *)

\* The most bytes a payload carries after the structure.
MaxExtra == 1

\* Raw values of a c_ushort field: ordinary ones, both sentinels and
\* their neighbours.
Words == {0, 250, 65326, 65534, 65535}

\* Raw values of the inverter_active field.
ActiveWords == {0, 1, 2, 65535}

\* Raw values of a c_uint field.
Longs == {uint32(0, 0), uint32(0, 65535), uint32(65535, 65535)}

\* Three c_ushort with v in place k, ordinary values elsewhere.
Triple(base, k, v) == [i \in 1..3 |-> IF i = k THEN v ELSE base + i]

\* The raw field values the inverter sends, and the size of the payload.
ReplyFields ==
    { [first |-> f, temperature |-> t,
       dc_input_voltage |-> Triple(2300, k, w),
       dc_input_current |-> Triple(10, k, v),
       ac_output_current |-> Triple(20, k, v),
       ac_output_voltage |-> Triple(2390, k, w),
       frequency |-> Triple(5000, k, w),
       power |-> Triple(500, k, v),
       solar_energy_today |-> t,
       solar_energy_total |-> u,
       solar_hours_total |-> u,
       inverter_active |-> a,
       size |-> n] :
        f \in {78, 255}, t \in Words, w \in Words, v \in Words, k \in 1..3,
        u \in Longs, a \in ActiveWords,
        n \in (TCP_DATA_SIZE - 1)..(TCP_DATA_SIZE + MaxExtra) }

be32(u) == be16(u.hi) \o be16(u.lo)

be16s(words) == be16(words[1]) \o be16(words[2]) \o be16(words[3])

\* The bytes of a _TcpData holding the raw values f.
TcpData(f) ==
    <<129, 2, 1>>                                        \* padding0
    \o <<f.first, 76, 68, 78>> \o Repeat(49, 12)         \* serial_number
    \o be16(f.temperature)
    \o be16s(f.dc_input_voltage) \o be16s(f.dc_input_current)
    \o be16s(f.ac_output_current) \o be16s(f.ac_output_voltage)
    \o be16(f.frequency[1]) \o be16(f.power[1])          \* ac_output
    \o be16(f.frequency[2]) \o be16(f.power[2])
    \o be16(f.frequency[3]) \o be16(f.power[3])
    \o be16(f.solar_energy_today)
    \o be32(f.solar_energy_total) \o be32(f.solar_hours_total)
    \o be16(f.inverter_active)
    \o Repeat(0, 4) \o be16(0) \o Repeat(0, 10)          \* padding1, unknown0, padding2
    \o <<86, 49>> \o Repeat(0, 14) \o Repeat(0, 4)       \* firmware, padding3
    \o <<86, 50>> \o Repeat(0, 14) \o Repeat(0, 4)       \* firmware_slave, padding4

\* The payload of `size` bytes that starts with those bytes.
SizedPayload(f) ==
    LET whole == TcpData(f) \o Repeat(0, MaxExtra + 1)
    IN  SubSeq(whole, 1, f.size)

ReplyInit ==
    /\ CodecUnused /\ CodecIdle /\ RequestUnused
    /\ stage = "fields" /\ fields \in ReplyFields
    /\ reply_data = <<>> /\ decoded = <<>>

\* The inverter lays the structure out as the payload of its reply.
SendInformationReply ==
    /\ stage = "fields"
    /\ stage' = "payload"
    /\ reply_data' = SizedPayload(fields)
    /\ UNCHANGED <<fields, decoded>>
    /\ UNCHANGED codec_vars /\ UNCHANGED stream_vars /\ UNCHANGED request_vars

\* _parse_information_reply(data)
ParseInformationReply ==
    /\ stage = "payload"
    /\ stage' = "parsed"
    /\ decoded' = <<_parse_information_reply(reply_data)>>
    /\ UNCHANGED <<fields, reply_data>>
    /\ UNCHANGED codec_vars /\ UNCHANGED stream_vars /\ UNCHANGED request_vars

ReplyNext == SendInformationReply \/ ParseInformationReply

SpecReply == ReplyInit /\ [][ReplyNext]_vars

\* The call has returned a record / raised.
Recorded == stage = "parsed" /\ decoded[1].error = ""
Rejected == stage = "parsed" /\ decoded[1].error # ""
Record == decoded[1].info[1]

\* C12: in a decoded information reply each AC output has frequency null
\* for raw 65535 and raw x 0.01 otherwise, power null for raw 65535 and the
\* raw value otherwise; temperature is null for raw 65326 and raw x 0.1 for
\* every other raw value, 65535 included (250 gives 25.0); none of these
\* fields ever holds its sentinel as a number.
C12_SentinelMapping ==
    Recorded =>
        /\ \A i \in 1..3 :
            /\ Record.ac_output_frequency[i] =
                  IF fields.frequency[i] = 65535 THEN <<>>
                  ELSE <<[raw |-> fields.frequency[i], per |-> 100]>>
            /\ Record.ac_output_power[i] =
                  IF fields.power[i] = 65535 THEN <<>>
                  ELSE <<[raw |-> fields.power[i], per |-> 1]>>
            /\ Record.ac_output_frequency[i] # <<>>
                  => Record.ac_output_frequency[i][1].raw # 65535
            /\ Record.ac_output_power[i] # <<>>
                  => Record.ac_output_power[i][1].raw # 65535
        /\ Record.temperature =
              IF fields.temperature = 65326 THEN <<>>
              ELSE <<[raw |-> fields.temperature, per |-> 10]>>
        /\ Record.temperature # <<>> => Record.temperature[1].raw # 65326
        /\ fields.temperature = 250
              => Record.temperature = <<[raw |-> 250, per |-> 10]>>

C12_Witness ==
    /\ Recorded
    /\ fields.temperature = 65535 /\ Record.temperature # <<>>
    /\ fields.frequency[2] = 65535 /\ Record.ac_output_frequency[2] = <<>>
    /\ fields.power[2] = 65326 /\ Record.ac_output_power[2] # <<>>

\* C13: raw inverter_active 0 decodes to false and 1 to true; with any
\* other raw value _parse_information_reply raises and gives no record, so
\* the value is never coerced to true or false.
C13_InverterActive ==
    stage = "parsed" =>
        /\ fields.inverter_active \notin {0, 1}
              => decoded[1].error # "" /\ decoded[1].info = <<>>
        /\ Recorded => Record.inverter_active = (fields.inverter_active = 1)
        /\ decoded[1].error = "KeyError" => fields.inverter_active \notin {0, 1}

C13_Witness ==
    /\ stage = "parsed" /\ fields.inverter_active = 2
    /\ Len(reply_data) = TCP_DATA_SIZE /\ decoded[1] = ParseFailed("KeyError")

\* C14 as the specification words it: a telemetry record is produced only
\* from a payload of exactly 125 bytes.
C14_ExactlyTcpDataSize == Recorded => Len(reply_data) = 125

\* C20: each element of dc_input_voltage, dc_input_current,
\* ac_output_current and ac_output_voltage is null for raw 65535 and
\* raw x 0.1 otherwise; solar_energy_today (x 0.01), solar_energy_total
\* (x 0.1) and solar_hours_total (raw) are a number for every raw value.
C20_ListSentinelScalarsNone ==
    LET tenth(raw) == IF raw = 65535 THEN <<>> ELSE <<[raw |-> raw, per |-> 10]>>
    IN  Recorded =>
        /\ \A i \in 1..3 :
            /\ Record.dc_input_voltage[i] = tenth(fields.dc_input_voltage[i])
            /\ Record.dc_input_current[i] = tenth(fields.dc_input_current[i])
            /\ Record.ac_output_current[i] = tenth(fields.ac_output_current[i])
            /\ Record.ac_output_voltage[i] = tenth(fields.ac_output_voltage[i])
        /\ Record.solar_energy_today =
              <<[raw |-> fields.solar_energy_today, per |-> 100]>>
        /\ Record.solar_energy_total =
              <<[raw |-> fields.solar_energy_total, per |-> 10]>>
        /\ Record.solar_hours_total =
              <<[raw |-> fields.solar_hours_total, per |-> 1]>>

C20_Witness ==
    /\ Recorded
    /\ fields.dc_input_current[3] = 65535 /\ Record.dc_input_current[3] = <<>>
    /\ fields.dc_input_voltage[3] = 65326 /\ Record.dc_input_voltage[3] # <<>>
    /\ fields.solar_energy_today = 65535 /\ Record.solar_energy_today # <<>>
    /\ fields.solar_hours_total = uint32(65535, 65535)
    /\ Record.solar_hours_total = <<[raw |-> uint32(65535, 65535), per |-> 1]>>

---------------------------------------------------------------------------
(* SpecRequest: OmnikInverter.tcp_request, one step per statement.  Every  *)
(* await may complete, raise OSError, or have CancelledError thrown into   *)
(* it by the caller; the inverter answers with any bytes.                  *)

\* reader.read(1024)
READ_LIMIT == 1024

\* self.serial_number: None is <<>>.
SerialNumbers == {<<>>} \cup { <<s>> : s \in RequestSerials }

\* What the connection has to offer when the client reads: nothing, one
\* frame with or without what follows it, or more than one read takes.
Arrivals ==
    {<<>>}
    \cup { p \o t : p \in Pieces, t \in Tails }
    \cup { Concat([i \in 1..8 |->
             WireFrame(Reply(MESSAGE_TYPE_INFORMATION_REPLY, Asked,
                             InfoPayload(250, 1, 0)))]) }

\* reader.read(n): at most n of the bytes at hand.
read(arrived, n) ==
    IF Len(arrived) <= n THEN arrived ELSE SubSeq(arrived, 1, n)

\* How an await ends.
Outcomes == {"ok", "OSError", "CancelledError"}

RequestInit ==
    /\ CodecUnused /\ CodecIdle /\ ReplyUnused
    /\ req_pc = "check_serial" /\ req_serial \in SerialNumbers
    /\ connection = "none" /\ sent = <<>> /\ raw_msg = <<>>
    /\ pending = "" /\ req_error = "" /\ returned = <<>>

RequestOthersUnchanged ==
    UNCHANGED codec_vars /\ UNCHANGED stream_vars /\ UNCHANGED reply_vars

\* An exception leaves tcp_request.
RequestRaise(name) ==
    /\ req_error' = name /\ req_pc' = "raised"
    /\ UNCHANGED <<req_serial, sent, raw_msg, pending, returned>>

\* Lines 135-137
CheckSerial ==
    /\ req_pc = "check_serial"
    /\ IF req_serial = <<>>
       THEN RequestRaise("OmnikInverterAuthError")
       ELSE /\ req_pc' = "open_connection"
            /\ UNCHANGED <<req_serial, sent, raw_msg, pending, req_error, returned>>
    /\ UNCHANGED connection
    /\ RequestOthersUnchanged

\* Lines 139-143
OpenConnection ==
    /\ req_pc = "open_connection"
    /\ \E outcome \in Outcomes :
          IF outcome = "ok"
          THEN /\ connection' = "open" /\ req_pc' = "write"
               /\ UNCHANGED <<req_serial, sent, raw_msg, pending, req_error, returned>>
          ELSE /\ connection' = connection
               /\ RequestRaise(IF outcome = "OSError"
                               THEN "OmnikInverterConnectionError" ELSE outcome)
    /\ RequestOthersUnchanged

\* An exception inside the try block: the finally clause runs with it
\* pending.
IntoFinally(name) ==
    /\ pending' = name /\ req_pc' = "close"
    /\ UNCHANGED <<req_serial, connection, sent, raw_msg, req_error, returned>>

\* Line 146: writer.write does not suspend; it can still raise.
Write ==
    /\ req_pc = "write"
    /\ \E outcome \in {"ok", "OSError"} :
          IF outcome = "ok"
          THEN /\ sent' = create_information_request(req_serial[1])
               /\ req_pc' = "drain"
               /\ UNCHANGED <<req_serial, connection, raw_msg, pending, req_error,
                              returned>>
          ELSE IntoFinally(outcome)
    /\ RequestOthersUnchanged

\* A mutant: the drain outside the try block.
Drain_outside_try ==
    /\ req_pc = "drain"
    /\ \E outcome \in Outcomes :
          IF outcome = "ok"
          THEN /\ req_pc' = "read"
               /\ UNCHANGED <<req_serial, connection, sent, raw_msg, pending,
                              req_error, returned>>
          ELSE connection' = connection /\ RequestRaise(outcome)
    /\ RequestOthersUnchanged

\* Line 147
Drain ==
    /\ req_pc = "drain"
    /\ \E outcome \in Outcomes :
          IF outcome = "ok"
          THEN /\ req_pc' = "read"
               /\ UNCHANGED <<req_serial, connection, sent, raw_msg, pending,
                              req_error, returned>>
          ELSE IntoFinally(outcome)
    /\ RequestOthersUnchanged

\* Line 149
Read ==
    /\ req_pc = "read"
    /\ \/ \E arrived \in Arrivals :
             /\ raw_msg' = read(arrived, READ_LIMIT)
             /\ req_pc' = "close"
             /\ UNCHANGED <<req_serial, connection, sent, pending, req_error,
                            returned>>
       \/ \E outcome \in {"OSError", "CancelledError"} : IntoFinally(outcome)
    /\ RequestOthersUnchanged

\* Line 151: writer.close() starts closing the transport.
Close ==
    /\ req_pc = "close"
    /\ connection' = "closing" /\ req_pc' = "wait_closed"
    /\ UNCHANGED <<req_serial, sent, raw_msg, pending, req_error, returned>>
    /\ RequestOthersUnchanged

\* Lines 152-156: await writer.wait_closed(); afterwards the pending
\* exception, if any, goes on.
WaitClosed ==
    /\ req_pc = "wait_closed"
    /\ \E outcome \in Outcomes :
          IF outcome = "ok"
          THEN /\ connection' = "closed"
               /\ IF pending # "" THEN RequestRaise(pending)
                  ELSE /\ req_pc' = "return"
                       /\ UNCHANGED <<req_serial, sent, raw_msg, pending, req_error,
                                      returned>>
          ELSE IF outcome = "OSError"
          THEN /\ connection' = "closed"
               /\ RequestRaise("OmnikInverterConnectionError")
          ELSE /\ connection' = connection
               /\ RequestRaise("CancelledError")
    /\ RequestOthersUnchanged

\* Line 158: what tcp.parse_messages is called with is what comes back.
Return ==
    /\ req_pc = "return"
    /\ returned' = <<[serial_number |-> req_serial[1], raw_msg |-> raw_msg]>>
    /\ req_pc' = "returned"
    /\ UNCHANGED <<req_serial, connection, sent, raw_msg, pending, req_error>>
    /\ RequestOthersUnchanged

RequestNext ==
    \/ CheckSerial
    \/ OpenConnection
    \/ Write
    \/ Drain
    \/ Read
    \/ Close
    \/ WaitClosed
    \/ Return

SpecRequest == RequestInit /\ [][RequestNext]_vars

\* tcp_request is over.
RequestOver == req_pc \in {"returned", "raised"}

\* C16: a connection that was opened is not open any more when tcp_request
\* returns or raises: writer.close() was called on every path, and the
\* close was waited for unless that wait itself was cancelled.  Nothing
\* is returned once a write, drain, read or close failed or was
\* cancelled.  Without a serial number, or when the connection cannot be
\* opened, an error is raised and there is no connection.
C16_ConnectionLifecycle ==
    /\ RequestOver
          => /\ connection # "open"
             /\ connection = "closing" => req_error = "CancelledError"
    /\ req_pc = "returned"
          => /\ connection = "closed" /\ pending = "" /\ req_error = ""
             /\ sent = create_information_request(req_serial[1])
    /\ (pending # "" \/ req_error # "") => returned = <<>>
    /\ (RequestOver /\ pending # "") => (req_pc = "raised" /\ req_error # "")
    /\ (RequestOver /\ req_serial = <<>>)
          => (connection = "none" /\ req_error = "OmnikInverterAuthError")
    /\ (RequestOver /\ connection = "none")
          => (req_pc = "raised" /\ req_error # "" /\ sent = <<>>)

C16_Witness ==
    /\ req_pc = "raised" /\ pending = "CancelledError"
    /\ req_error = "CancelledError" /\ connection = "closed"
    /\ sent # <<>> /\ raw_msg = <<>> /\ returned = <<>>

============================================================================
